---- MODULE Spec2Model ----
(***************************************************************************)
(* Model of metaflow/plugins/azure/azure_utils.py: parse_azure_full_path,  *)
(* process_exception, handle_exceptions and                                *)
(* CacheableDefaultAzureCredential.                                        *)
(*                                                                         *)
(* Python strings are modelled as sequences of one-character strings, so   *)
(* that split, startswith, endswith, "in" and splitlines are computed      *)
(* character by character as the interpreter does.                         *)
(***************************************************************************)
EXTENDS Integers, Sequences, FiniteSets, TLC

VARIABLES
    blob_full_uri,  \* argument of parse_azure_full_path
    parse_out,      \* what that call produced
    e,              \* argument of process_exception
    norm_out,       \* what that call raised
    layers,         \* how many times handle_exceptions was applied to func
    call_args,      \* (args, kwargs) the caller gives the outermost inner_function
    frames,         \* (args, kwargs) of each inner_function entered, outermost first
    func_calls,     \* (args, kwargs) of each invocation of func
    func_out,       \* what func returned or raised
    layer_out,      \* what each inner_function returned or raised, innermost first
    cred_a,         \* a CacheableDefaultAzureCredential, once constructed
    cred_b,         \* a second one
    hash_out,       \* what hash(cred_a) gave
    eq_out          \* the right operand and the result of a call cred_a == other

parseVars == <<blob_full_uri, parse_out>>

normVars == <<e, norm_out>>

wrapVars == <<layers, call_args, frames, func_calls, func_out, layer_out>>

credVars == <<cred_a, cred_b, hash_out, eq_out>>

vars == <<parseVars, normVars, wrapVars, credVars>>

(* ---------------------------- bounds ----------------------------------- *)
MaxPathLen == 5

MaxMsgLen == 3

MaxLayers == 2

MaxArgs == 1

(* ---------------------------- strings ---------------------------------- *)
SeqsUpTo(S, n) == UNION {[1..k -> S] : k \in 0..n}

PathChars == {"a", "b", "/"}

Paths == SeqsUpTo(PathChars, MaxPathLen)

\* mutant of EndsWithSlash: tests the first character (a copy of startswith)
EndsWithSlashTestsFirst(s) == Len(s) > 0 /\ s[1] = "/"

\* str.endswith("/")
EndsWithSlash(s) == Len(s) > 0 /\ s[Len(s)] = "/"

\* str.startswith("/")
StartsWithSlash(s) == Len(s) > 0 /\ s[1] = "/"

\* mutant of HasDoubleSlash: looks for "//" at the start of s only
HasDoubleSlashAtStart(s) == Len(s) > 1 /\ s[1] = "/" /\ s[2] = "/"

\* "//" in s
HasDoubleSlash(s) == \E i \in 1..(Len(s) - 1) : s[i] = "/" /\ s[i + 1] = "/"

\* "/" in s
HasSlash(s) == \E i \in 1..Len(s) : s[i] = "/"

\* index of the first "/" of s, 0 when there is none (str.find)
FirstSlash(s) ==
    IF HasSlash(s)
    THEN CHOOSE i \in 1..Len(s) : s[i] = "/" /\ \A j \in 1..(i - 1) : s[j] # "/"
    ELSE 0

\* mutant of SplitOnce: splits at the last separator (rsplit)
SplitAtLast(s) ==
    IF ~HasSlash(s)
    THEN <<s>>
    ELSE LET i == CHOOSE i \in 1..Len(s) :
                      s[i] = "/" /\ \A j \in (i + 1)..Len(s) : s[j] # "/"
         IN  <<SubSeq(s, 1, i - 1), SubSeq(s, i + 1, Len(s))>>

\* s.split("/", 1): at most one split, at the first separator
SplitOnce(s) ==
    IF FirstSlash(s) = 0
    THEN <<s>>
    ELSE <<SubSeq(s, 1, FirstSlash(s) - 1), SubSeq(s, FirstSlash(s) + 1, Len(s))>>

(* ----------------------- parse_azure_full_path ------------------------- *)
NoResult == [status |-> "pending"]

ValueError == [status |-> "ValueError"]

Returned(container_name, has_blob, blob_name) ==
    [status |-> "returned", container_name |-> container_name,
     has_blob |-> has_blob, blob_name |-> blob_name]

\* blob_name = None is has_blob = FALSE (blob_name then carries <<>>)
parse_azure_full_path(s) ==
    IF EndsWithSlash(s) THEN ValueError
    ELSE IF StartsWithSlash(s) THEN ValueError
    ELSE IF HasDoubleSlash(s) THEN ValueError
    ELSE LET parts == SplitOnce(s)
             container_name == parts[1]
         IN  IF container_name = <<>> THEN ValueError
             ELSE IF Len(parts) = 1 THEN Returned(container_name, FALSE, <<>>)
             ELSE Returned(container_name, TRUE, parts[2])

\* the parts of the state a specification does not exercise
IdleParse == blob_full_uri = <<>> /\ parse_out = NoResult

IdleNormalize == e = NoResult /\ norm_out = NoResult

IdleWrap ==
    /\ layers = 0
    /\ call_args = NoResult
    /\ frames = <<>>
    /\ func_calls = <<>>
    /\ func_out = NoResult
    /\ layer_out = <<>>

IdleCred ==
    /\ cred_a = NoResult
    /\ cred_b = NoResult
    /\ hash_out = NoResult
    /\ eq_out = NoResult

InitParse ==
    /\ blob_full_uri \in Paths
    /\ parse_out = NoResult
    /\ IdleNormalize
    /\ IdleWrap
    /\ IdleCred

\* one call parse_azure_full_path(blob_full_uri)
ParseCall ==
    /\ parse_out = NoResult
    /\ parse_out' = parse_azure_full_path(blob_full_uri)
    /\ UNCHANGED <<blob_full_uri, normVars, wrapVars, credVars>>

NextParse == ParseCall

SpecParse == InitParse /\ [][NextParse]_vars

(* --------------------------- exceptions -------------------------------- *)
\* azure.core.exceptions, as imported
SdkClasses ==
    {"ClientAuthenticationError", "ResourceNotFoundError", "ResourceExistsError",
     "AzureError"}

\* the three kinds process_exception raises
MetaflowClasses ==
    {"MetaflowAzureAuthenticationError", "MetaflowAzureResourceError",
     "MetaflowInternalError"}

\* other Exception subclasses a caller can hand over
OtherClasses == {"KeyError", "IndexError"}

ExceptionClasses == SdkClasses \cup MetaflowClasses \cup OtherClasses

\* the SDK classes an instance of cls is an instance of: every SDK error
\* derives from AzureError, no other class does
SdkBases(cls) ==
    IF cls \in SdkClasses THEN {cls, "AzureError"} ELSE {}

\* the classes an instance of a Metaflow error is an instance of: Metaflow's
\* own hierarchy, disjoint from the SDK's
MetaflowBases(cls) ==
    IF cls \in MetaflowClasses THEN {cls, "MetaflowException"} ELSE {}

\* isinstance(x, cls)
IsInstance(x, cls) == cls \in (SdkBases(x.cls) \cup MetaflowBases(x.cls) \cup {x.cls})

\* an exception in flight: its class and the text str() gives for it
Raised(cls, msg) == [status |-> "raised", cls |-> cls, msg |-> msg]

MsgChars == {"m", "\n", "\r"}

Messages == SeqsUpTo(MsgChars, MaxMsgLen)

(* --------------------------- str.splitlines ---------------------------- *)
\* the line boundaries of str.splitlines that the message alphabet holds
IsLineBreak(c) == c \in {"\n", "\r"}

\* index of the first line break of s, Len(s) + 1 when there is none
FirstBreak(s) ==
    IF \E i \in 1..Len(s) : IsLineBreak(s[i])
    THEN CHOOSE i \in 1..Len(s) :
             IsLineBreak(s[i]) /\ \A j \in 1..(i - 1) : ~IsLineBreak(s[j])
    ELSE Len(s) + 1

\* width of the line break that starts at s[i]: "\r\n" counts as one
BreakWidth(s, i) ==
    IF s[i] = "\r" /\ i + 1 <= Len(s) /\ s[i + 1] = "\n" THEN 2 ELSE 1

RECURSIVE SplitLines(_)
\* s.splitlines(): the lines without their terminators; no line follows a
\* terminator that ends the string, and "" has no lines
SplitLines(s) ==
    IF s = <<>> THEN <<>>
    ELSE LET eol == FirstBreak(s)
         IN  IF eol > Len(s) THEN <<s>>
             ELSE <<SubSeq(s, 1, eol - 1)>>
                      \o SplitLines(SubSeq(s, eol + BreakWidth(s, eol), Len(s)))

(* -------------------------- process_exception -------------------------- *)
AzureTag == <<"A", "z", "u", "r", "e", " ", "e", "r", "r", "o", "r", ":", " ">>

IndexErrorMsg == <<"l", "i", "s", "t", " ", "i", "n", "d", "e", "x", " ", "o", "u", "t", " ", "o", "f", " ", "r", "a", "n", "g", "e">>

\* mutant of process_exception: the base class is tested before the
\* resource classes
ProcessExceptionBaseFirst(x) ==
    IF IsInstance(x, "ClientAuthenticationError")
    THEN LET lines == SplitLines(x.msg)
         IN  IF lines = <<>> THEN Raised("IndexError", IndexErrorMsg)
             ELSE Raised("MetaflowAzureAuthenticationError", lines[Len(lines)])
    ELSE IF IsInstance(x, "AzureError")
    THEN Raised("MetaflowInternalError", AzureTag \o x.msg)
    ELSE IF IsInstance(x, "ResourceNotFoundError") \/ IsInstance(x, "ResourceExistsError")
    THEN Raised("MetaflowAzureResourceError", x.msg)
    ELSE Raised("MetaflowInternalError", x.msg)

\* the exception process_exception(x) raises; lines[-1] of an empty list
\* raises IndexError
process_exception(x) ==
    IF IsInstance(x, "ClientAuthenticationError")
    THEN LET lines == SplitLines(x.msg)
         IN  IF lines = <<>> THEN Raised("IndexError", IndexErrorMsg)
             ELSE Raised("MetaflowAzureAuthenticationError", lines[Len(lines)])
    ELSE IF IsInstance(x, "ResourceNotFoundError") \/ IsInstance(x, "ResourceExistsError")
    THEN Raised("MetaflowAzureResourceError", x.msg)
    ELSE IF IsInstance(x, "AzureError")
    THEN Raised("MetaflowInternalError", AzureTag \o x.msg)
    ELSE Raised("MetaflowInternalError", x.msg)

InitNormalize ==
    /\ e \in {Raised(cls, msg) : cls \in ExceptionClasses, msg \in Messages}
    /\ norm_out = NoResult
    /\ IdleParse
    /\ IdleWrap
    /\ IdleCred

\* one call process_exception(e)
NormalizeCall ==
    /\ norm_out = NoResult
    /\ norm_out' = process_exception(e)
    /\ UNCHANGED <<e, parseVars, wrapVars, credVars>>

NextNormalize == NormalizeCall

SpecNormalize == InitNormalize /\ [][NextNormalize]_vars

(* -------------------------- handle_exceptions -------------------------- *)
\* raisable classes that do not derive from Exception
BaseOnlyClasses == {"KeyboardInterrupt"}

\* isinstance(x, Exception), the test of "except Exception"
IsException(x) == x.cls \in ExceptionClasses

FuncReturn(v) == [status |-> "returned", value |-> v]

\* what a call of func can do: return a value, raise
FuncOutcomes ==
    {FuncReturn(v) : v \in {"None", "blob"}}
        \cup {Raised(cls, msg) : cls \in ExceptionClasses \cup BaseOnlyClasses,
                                 msg \in Messages}

CallArgs ==
    {[args |-> a, kwargs |-> k] :
        a \in {<<>>, <<"path">>}, k \in {<<>>, <<<<"timeout", "t">>>>}}

\* what inner_function does with what func(*args, **kwargs) did: a return
\* value is returned, an Exception goes to process_exception, anything else
\* raised passes through
inner_function(sig) ==
    IF sig.status = "returned" THEN sig
    ELSE IF IsException(sig) THEN process_exception(sig)
    ELSE sig

InitWrap ==
    /\ layers \in 1..MaxLayers
    /\ call_args \in CallArgs
    /\ frames = <<>>
    /\ func_calls = <<>>
    /\ func_out = NoResult
    /\ layer_out = <<>>
    /\ IdleParse
    /\ IdleNormalize
    /\ IdleCred

\* a call enters inner_function: the caller's call the outermost one, an
\* inner_function's func(*args, **kwargs) the next one
EnterInnerFunction ==
    /\ Len(frames) < layers
    /\ frames' = Append(frames, IF frames = <<>> THEN call_args
                                 ELSE frames[Len(frames)])
    /\ UNCHANGED <<layers, call_args, func_calls, func_out, layer_out>>
    /\ UNCHANGED <<parseVars, normVars, credVars>>

\* the innermost inner_function calls func(*args, **kwargs)
CallFunc ==
    /\ Len(frames) = layers
    /\ func_out = NoResult
    /\ func_calls' = Append(func_calls, frames[Len(frames)])
    /\ func_out' \in FuncOutcomes
    /\ UNCHANGED <<layers, call_args, frames, layer_out>>
    /\ UNCHANGED <<parseVars, normVars, credVars>>

\* the innermost inner_function still running ends
ExitInnerFunction ==
    /\ func_out # NoResult
    /\ Len(layer_out) < layers
    /\ layer_out' = Append(layer_out,
            inner_function(IF layer_out = <<>> THEN func_out
                           ELSE layer_out[Len(layer_out)]))
    /\ UNCHANGED <<layers, call_args, frames, func_calls, func_out>>
    /\ UNCHANGED <<parseVars, normVars, credVars>>

NextWrap == EnterInnerFunction \/ CallFunc \/ ExitInnerFunction

SpecWrap == InitWrap /\ [][NextWrap]_vars

(* ------------------ CacheableDefaultAzureCredential -------------------- *)
\* keyword names, and argument values: integers, of which the interpreter
\* hashes -1 and -2 alike
KwNames == {"authority", "tenant_id"}

ArgValues == {-2, -1, 0}

\* the order of str on the keyword names
KwRank(k) == IF k = "authority" THEN 1 ELSE 2

\* *args as given
ArgTuples == SeqsUpTo(ArgValues, MaxArgs)

\* **kwargs as written: (name, value) pairs in the order of the call, no
\* name twice
KwargsWritten ==
    {kw \in SeqsUpTo(KwNames \X ArgValues, Cardinality(KwNames)) :
        \A i, j \in 1..Len(kw) : i # j => kw[i][1] # kw[j][1]}

RECURSIVE InsertItem(_, _)
\* item placed in the ascending sequence sorted_items, by name
InsertItem(item, sorted_items) ==
    IF sorted_items = <<>> THEN <<item>>
    ELSE IF KwRank(item[1]) <= KwRank(Head(sorted_items)[1])
    THEN <<item>> \o sorted_items
    ELSE <<Head(sorted_items)>> \o InsertItem(item, Tail(sorted_items))

RECURSIVE SortItems(_)
\* sorting by name, written order forgotten
SortItems(items) ==
    IF items = <<>> THEN <<>>
    ELSE InsertItem(Head(items), SortItems(Tail(items)))

\* mutant of SortedItems: the items in the order they were written
UnsortedItems(kwargs) == kwargs

\* tuple(sorted(kwargs.items()))
SortedItems(kwargs) == SortItems(kwargs)

\* hash(n) of an int: n, but -2 for -1 (-1 is the interpreter's error value)
IntHash(n) == IF n = -1 THEN -2 ELSE n

\* hash(s) of a str: one value per text within a process
StrHash(str) == <<"hash", str>>

\* hash(t) of a tuple is a function of the hashes of its items, in order.
\* It is modelled as that sequence itself: two tuples collide here only if
\* they collide in the interpreter.
ArgsHash(args) == [i \in 1..Len(args) |-> IntHash(args[i])]

ItemsHash(items) ==
    [i \in 1..Len(items) |-> <<StrHash(items[i][1]), IntHash(items[i][2])>>]

\* hash((args, items))
KeyHash(args, items) == <<ArgsHash(args), ItemsHash(items)>>

Credential(args, kwargs, hash_code) ==
    [type |-> "CacheableDefaultAzureCredential", args |-> args,
     kwargs |-> kwargs, hash_code |-> hash_code]

\* a plain tuple (args, items), not a credential
KeyTuple(args, items) == [type |-> "tuple", args |-> args, items |-> items]

\* CacheableDefaultAzureCredential(*args, **kwargs)
CredentialInit(args, kwargs) ==
    Credential(args, kwargs, KeyHash(args, SortedItems(kwargs)))

\* self.__hash__()
CredentialHash(self) == self.hash_code

\* hash(x) for the objects of the model
Hash(x) ==
    IF x.type = "tuple" THEN KeyHash(x.args, x.items) ELSE CredentialHash(x)

\* self.__eq__(other)
CredentialEq(self, other) == Hash(self) = Hash(other)

InitCred ==
    /\ IdleCred
    /\ IdleParse
    /\ IdleNormalize
    /\ IdleWrap

\* a call site constructs a credential: cred_a first, then cred_b
Construct ==
    /\ cred_b = NoResult
    /\ \E args \in ArgTuples, kwargs \in KwargsWritten :
          IF cred_a = NoResult
          THEN cred_a' = CredentialInit(args, kwargs) /\ UNCHANGED cred_b
          ELSE cred_b' = CredentialInit(args, kwargs) /\ UNCHANGED cred_a
    /\ UNCHANGED <<hash_out, eq_out>>
    /\ UNCHANGED <<parseVars, normVars, wrapVars>>

\* hash(cred_a)
HashCall ==
    /\ cred_a # NoResult
    /\ hash_out = NoResult
    /\ hash_out' = [value |-> Hash(cred_a)]
    /\ UNCHANGED <<cred_a, cred_b, eq_out>>
    /\ UNCHANGED <<parseVars, normVars, wrapVars>>

\* cred_a == other, other being cred_b or the plain tuple of cred_b's
\* arguments
EqCall ==
    /\ cred_a # NoResult
    /\ cred_b # NoResult
    /\ eq_out = NoResult
    /\ \E other \in {cred_b, KeyTuple(cred_b.args, SortedItems(cred_b.kwargs))} :
          eq_out' = [other |-> other, result |-> CredentialEq(cred_a, other)]
    /\ UNCHANGED <<cred_a, cred_b, hash_out>>
    /\ UNCHANGED <<parseVars, normVars, wrapVars>>

NextCred == Construct \/ HashCall \/ EqCall

SpecCred == InitCred /\ [][NextCred]_vars

(* ------------------- claims on parse_azure_full_path ------------------- *)
Slash == <<"/">>

Foo == <<"f", "o", "o">>

Bar == <<"b", "a", "r">>

\* the four rejection conditions of the contract, stated on the input text
Malformed(s) ==
    \/ s = <<>>
    \/ s[Len(s)] = "/"
    \/ s[1] = "/"
    \/ \E i \in 1..(Len(s) - 1) : SubSeq(s, i, i + 1) = <<"/", "/">>

\* a container segment: non-empty, no "/"
ValidContainer(c) == c # <<>> /\ \A i \in 1..Len(c) : c[i] # "/"

\* a key prefix: non-empty, no leading or trailing "/", no "//"
ValidKey(k) ==
    /\ k # <<>>
    /\ k[1] # "/"
    /\ k[Len(k)] # "/"
    /\ \A i \in 1..(Len(k) - 1) : ~(k[i] = "/" /\ k[i + 1] = "/")

\* C1: every input that ends with "/", starts with "/", contains "//" or has
\* an empty container segment is rejected with ValueError and no result is
\* returned; so are "", "/foo", "foo/" and "foo//bar".
C1_MalformedRejected ==
    /\ (parse_out # NoResult /\ Malformed(blob_full_uri)) => parse_out = ValueError
    /\ parse_azure_full_path(<<>>) = ValueError
    /\ parse_azure_full_path(Slash \o Foo) = ValueError
    /\ parse_azure_full_path(Foo \o Slash) = ValueError
    /\ parse_azure_full_path(Foo \o Slash \o Slash \o Bar) = ValueError

\* C1 witness: an input whose only defect is an inner "//" has been rejected
C1_Witness ==
    /\ parse_out = ValueError
    /\ blob_full_uri = <<"a", "/", "/", "b">>

\* C2: an input without "/" parses to (input, None); an input c/k with valid
\* c and k parses to (c, k), k verbatim, whatever further "/" k holds.
C2_SplitAtFirst ==
    parse_out # NoResult =>
        /\ ValidContainer(blob_full_uri) =>
                parse_out = Returned(blob_full_uri, FALSE, <<>>)
        /\ \A i \in 1..Len(blob_full_uri) :
                LET c == SubSeq(blob_full_uri, 1, i - 1)
                    k == SubSeq(blob_full_uri, i + 1, Len(blob_full_uri))
                IN  (blob_full_uri = c \o Slash \o k /\ ValidContainer(c) /\ ValidKey(k))
                        => parse_out = Returned(c, TRUE, k)

\* C2 witness: a key prefix that itself holds a "/" has been returned
C2_Witness ==
    /\ blob_full_uri = <<"a", "/", "b", "/", "a">>
    /\ parse_out = Returned(<<"a">>, TRUE, <<"b", "/", "a">>)

\* C3: every returned pair has a non-empty container without "/" and a key
\* prefix that is None or non-empty, without leading or trailing "/" and
\* without "//".
C3_ResultWellFormed ==
    parse_out.status = "returned" =>
        /\ ValidContainer(parse_out.container_name)
        /\ parse_out.has_blob => ValidKey(parse_out.blob_name)

\* C3 witness: a pair with a key prefix has been returned
C3_Witness ==
    /\ parse_out.status = "returned"
    /\ parse_out.has_blob
    /\ Len(parse_out.blob_name) > 1

(* --------------------- claims on process_exception --------------------- *)
\* m without the one line terminator that may end it
Body(m) ==
    IF m = <<>> THEN m
    ELSE IF Len(m) > 1 /\ SubSeq(m, Len(m) - 1, Len(m)) = <<"\r", "\n">>
    THEN SubSeq(m, 1, Len(m) - 2)
    ELSE IF m[Len(m)] \in {"\n", "\r"} THEN SubSeq(m, 1, Len(m) - 1)
    ELSE m

\* t is the last line of m: the text of m, less its final terminator, that
\* follows the last line terminator
IsLastLineOf(t, m) ==
    /\ m # <<>>
    /\ Len(t) <= Len(Body(m))
    /\ t = SubSeq(Body(m), Len(Body(m)) - Len(t) + 1, Len(Body(m)))
    /\ \A i \in 1..Len(t) : t[i] \notin {"\n", "\r"}
    /\ Len(t) < Len(Body(m)) => Body(m)[Len(Body(m)) - Len(t)] \in {"\n", "\r"}

\* C4: process_exception raises one of MetaflowAzureAuthenticationError,
\* MetaflowAzureResourceError, MetaflowInternalError for every error of every
\* class and message, the empty message included; nothing else escapes.
C4_AlwaysRaisesNormalized ==
    norm_out # NoResult =>
        (norm_out.status = "raised" /\ norm_out.cls \in MetaflowClasses)

\* C5: for every ClientAuthenticationError, process_exception raises
\* MetaflowAzureAuthenticationError whose message is exactly the last line of
\* the underlying message, as for the three-line example.
C5_AuthLastLine ==
    /\ (norm_out # NoResult /\ e.cls = "ClientAuthenticationError") =>
            /\ norm_out.cls = "MetaflowAzureAuthenticationError"
            /\ IsLastLineOf(norm_out.msg, e.msg)
    /\ process_exception(Raised("ClientAuthenticationError",
            <<"l", "i", "n", "e", "1", "\n", "l", "i", "n", "e", "2", "\n", "T", "H", "E", " ", "R", "E", "A", "L", " ", "R", "E", "A", "S", "O", "N">>))
         = Raised("MetaflowAzureAuthenticationError", <<"T", "H", "E", " ", "R", "E", "A", "L", " ", "R", "E", "A", "S", "O", "N">>)

\* C5 holds of every message that has at least one line
C5_AuthLastLineWhenLines ==
    (norm_out # NoResult /\ e.cls = "ClientAuthenticationError" /\ e.msg # <<>>) =>
        /\ norm_out.cls = "MetaflowAzureAuthenticationError"
        /\ IsLastLineOf(norm_out.msg, e.msg)

\* C6: first match wins. A resource error that is no authentication error
\* gives MetaflowAzureResourceError with the full message; any other SDK
\* error gives MetaflowInternalError with "Azure error: " and the full
\* message; an error outside the SDK gives MetaflowInternalError with the
\* full message and no tag; an authentication error, which also matches the
\* base class, is never mapped by a later row.
C6_PriorityOrder ==
    norm_out # NoResult =>
        /\ e.cls \in {"ResourceNotFoundError", "ResourceExistsError"} =>
                norm_out = Raised("MetaflowAzureResourceError", e.msg)
        /\ e.cls = "AzureError" =>
                norm_out = Raised("MetaflowInternalError", AzureTag \o e.msg)
        /\ e.cls \notin SdkClasses =>
                norm_out = Raised("MetaflowInternalError", e.msg)
        /\ e.cls = "ClientAuthenticationError" =>
                norm_out.cls \notin {"MetaflowAzureResourceError", "MetaflowInternalError"}

\* C6 witness: a not-found error with a multi-line message has been mapped
C6_Witness ==
    /\ e = Raised("ResourceNotFoundError", <<"m", "\n", "m">>)
    /\ norm_out = Raised("MetaflowAzureResourceError", <<"m", "\n", "m">>)

(* --------------------- claims on handle_exceptions --------------------- *)
\* C8: once an inner_function has ended, func has been invoked exactly once,
\* with the caller's arguments; a value func returned is what the
\* inner_function returns; an exception func raised makes the
\* inner_function raise one of the three Metaflow errors.
C8_WrapperContract ==
    layer_out # <<>> =>
        /\ func_calls = <<call_args>>
        /\ func_out.status = "returned" => layer_out[1] = func_out
        /\ (func_out.status = "raised" /\ IsException(func_out)) =>
                /\ layer_out[1].status = "raised"
                /\ layer_out[1].cls \in MetaflowClasses

\* C9: a Metaflow error raised by an inner handle_exceptions layer leaves the
\* outer layer with the same class.
C9_KindStable ==
    (Len(layer_out) >= 2 /\ layer_out[1].status = "raised"
                         /\ layer_out[1].cls \in MetaflowClasses) =>
        /\ layer_out[2].status = "raised"
        /\ layer_out[2].cls = layer_out[1].cls

(* ------------ claims on CacheableDefaultAzureCredential ---------------- *)
\* the keyword arguments as a set of (name, value) pairs
KwSet(kwargs) == {kwargs[i] : i \in 1..Len(kwargs)}

\* the same positional arguments in the same order, the same keyword
\* arguments in any order
SameArguments(x, y) == x.args = y.args /\ KwSet(x.kwargs) = KwSet(y.kwargs)

\* C7: two credentials constructed with the same arguments, the keywords in
\* any order, are equal and have the same hash; equal credentials have the
\* same hash; the hash a later call gives is the one derived from all the
\* arguments at construction.
C7_EqualArgumentsEqualHash ==
    /\ (cred_a # NoResult /\ cred_b # NoResult /\ SameArguments(cred_a, cred_b)) =>
            /\ CredentialEq(cred_a, cred_b)
            /\ CredentialEq(cred_b, cred_a)
            /\ Hash(cred_a) = Hash(cred_b)
    /\ (eq_out # NoResult /\ eq_out.other = cred_b /\ eq_out.result) =>
            Hash(cred_a) = Hash(cred_b)
    /\ hash_out # NoResult =>
            \E items \in KwargsWritten :
                /\ KwSet(items) = KwSet(cred_a.kwargs)
                /\ \A i, j \in 1..Len(items) :
                        i < j => KwRank(items[i][1]) < KwRank(items[j][1])
                /\ hash_out.value = KeyHash(cred_a.args, items)

\* C7 witness: the same keywords written in two orders, compared and hashed
C7_Witness ==
    /\ cred_a # NoResult /\ cred_b # NoResult
    /\ Len(cred_a.kwargs) = 2
    /\ cred_a.kwargs # cred_b.kwargs
    /\ SameArguments(cred_a, cred_b)
    /\ eq_out # NoResult /\ eq_out.other = cred_b /\ eq_out.result
    /\ hash_out # NoResult

\* C10: cred_a == other is true only of a credential constructed with
\* cred_a's arguments: not of a credential whose positional or keyword
\* arguments differ, not of an object that is no credential.
C10_EqualOnlySameArguments ==
    (eq_out # NoResult /\ eq_out.result) =>
        /\ eq_out.other.type = "CacheableDefaultAzureCredential"
        /\ SameArguments(cred_a, eq_out.other)

\* C10, credentials only: a credential equal to cred_a has cred_a's arguments
C10_EqualCredentialsSameArguments ==
    (eq_out # NoResult /\ eq_out.result
        /\ eq_out.other.type = "CacheableDefaultAzureCredential") =>
        SameArguments(cred_a, eq_out.other)
====
